---- MODULE Spec2Model ----
(***************************************************************************)
(* spgram: the spectral periodogram of liquid-dsp (src/fft/src/spgram.c).  *)
(*                                                                         *)
(* Number representation.  The C code works on float and float complex.    *)
(* The model is fixed point: a real is an integer count of 1/WScale, a     *)
(* complex is a pair <<re, im>>, the averaging factor alpha is an integer  *)
(* count of 1/AlphaDen, twiddle factors are counts of 1/TwScale and the    *)
(* decibel output is in 1/100 dB.  Every float operation is the exact      *)
(* operation followed by rounding towards minus infinity.                  *)
(***************************************************************************)
EXTENDS Integers, Sequences, FiniteSets, TLC

\* ---------------------------------------------------------------- bounds
MaxNfft == 3        \* largest _nfft handed to spgram_create_advanced
MaxNfftSimple == 8  \* largest _nfft handed to spgram_create (8 is the first it accepts)
MaxM == 3           \* largest _m handed to spgram_create_advanced
MaxDelay == 2       \* largest _delay handed to spgram_create_advanced
MaxPushLen == 2     \* largest _n of one spgram_push call
MaxPushed == 4      \* samples pushed over the life of the object
MaxResets == 1      \* explicit spgram_reset calls over the life of the object
NumWindowsBits == 1 \* width of the num_windows counter (32 in C, narrowed so that it wraps)

\* ------------------------------------------------------- number formats
WScale == 10000     \* float: one unit is 1/WScale
AlphaDen == 4       \* float _alpha: one unit is 1/AlphaDen
TwScale == 1000     \* twiddle factors: one unit is 1/TwScale
NegInfDb == -999999 \* 20*log10f(0.0f), minus infinity

AlphaInputs == {-2, 0, 2, 4, 6}          \* -0.5, 0, 0.5, 1, 1.5
SampleInputs == { <<1, 0>>, <<0, 1>> }   \* the samples 1 and i
HeapFill == {0, 7777}                    \* what malloc'ed, unwritten memory may hold
FreshFill == 3333                        \* the same, for the object of reference

Abs(v) == IF v < 0 THEN -v ELSE v

CAdd(a, b) == << a[1] + b[1], a[2] + b[2] >>
CMul(a, b) == << a[1] * b[1] - a[2] * b[2], a[1] * b[2] + a[2] * b[1] >>

RECURSIVE SqrtSearch(_, _, _)
SqrtSearch(v, lo, hi) ==
    IF lo >= hi THEN lo
    ELSE LET mid == (lo + hi + 1) \div 2
         IN  IF mid * mid <= v THEN SqrtSearch(v, mid, hi)
                               ELSE SqrtSearch(v, lo, mid - 1)

\* cabsf(z): the magnitude of a complex value
Cabsf(z) == SqrtSearch(z[1] * z[1] + z[2] * z[2], 0, Abs(z[1]) + Abs(z[2]))

\* integer part of log2(v), v >= 1
RECURSIVE FloorLog2(_)
FloorLog2(v) == IF v < 2 THEN 0 ELSE 1 + FloorLog2(v \div 2)

RECURSIVE Pow2(_)
Pow2(e) == IF e = 0 THEN 1 ELSE 2 * Pow2(e - 1)

\* the next `bits` fractional bits of log2(y / 1024), y in [1024, 2048)
RECURSIVE Log2Frac(_, _)
Log2Frac(y, bits) ==
    IF bits = 0 THEN 0
    ELSE LET sq == (y * y) \div 1024
         IN  IF sq >= 2048
             THEN Pow2(bits - 1) + Log2Frac(sq \div 2, bits - 1)
             ELSE Log2Frac(sq, bits - 1)

\* log2(v) in units of 1/64, v >= 1
Log2Q(v) ==
    LET e == FloorLog2(v)
        y == (v * 1024) \div Pow2(e)
    IN  64 * e + Log2Frac(y, 6)

\* 20*log10f(fabsf(p)) in 1/100 dB, p a float in units of 1/WScale
MagToDb(p) ==
    IF Abs(p) = 0 THEN NegInfDb
    ELSE (602 * Log2Q(Abs(p))) \div 64 - (602 * Log2Q(WScale)) \div 64

\* cos and sin of 2*pi*j/n, n in 1..10, in units of 1/TwScale
CosTab ==
    << <<1000>>,
       <<1000, -1000>>,
       <<1000, -500, -500>>,
       <<1000, 0, -1000, 0>>,
       <<1000, 309, -809, -809, 309>>,
       <<1000, 500, -500, -1000, -500, 500>>,
       <<1000, 623, -223, -901, -901, -223, 623>>,
       <<1000, 707, 0, -707, -1000, -707, 0, 707>>,
       <<1000, 766, 174, -500, -940, -940, -500, 174, 766>>,
       <<1000, 809, 309, -309, -809, -1000, -809, -309, 309, 809>> >>

SinTab ==
    << <<0>>,
       <<0, 0>>,
       <<0, 866, -866>>,
       <<0, 1000, 0, -1000>>,
       <<0, 951, 588, -588, -951>>,
       <<0, 866, 866, 0, -866, -866>>,
       <<0, 782, 975, 434, -434, -975, -782>>,
       <<0, 707, 1000, 707, 0, -707, -1000, -707>>,
       <<0, 643, 985, 866, 342, -342, -866, -985, -643>>,
       <<0, 588, 951, 951, 588, 0, -588, -951, -951, -588>> >>

Cos(j, n) == CosTab[n][(j % n) + 1]
Sin(j, n) == SinTab[n][(j % n) + 1]

\* hamming(i, m) = 0.53836 - 0.46164*cos(2*pi*i/(m-1)); for m = 1 the
\* angle is taken as 0
hamming(i, m) ==
    LET c == IF m = 1 THEN TwScale ELSE Cos(i, m - 1)
    IN  (5384 * WScale) \div 10000 - (4616 * c) \div ((10000 * TwScale) \div WScale)

RECURSIVE DftSum(_, _, _, _)
DftSum(xx, k, n, nfft) ==
    IF n = nfft THEN <<0, 0>>
    ELSE IF xx[n + 1] = <<0, 0>> THEN DftSum(xx, k, n + 1, nfft)
    ELSE CAdd(CMul(xx[n + 1], << Cos(k * n, nfft), -Sin(k * n, nfft) >>),
              DftSum(xx, k, n + 1, nfft))

\* FFT_EXECUTE of a forward plan: X[k] = sum_n x[n] exp(-2 pi i k n / nfft)
FftExecute(xx, nfft) ==
    [ k \in 1..nfft |->
        LET s == DftSum(xx, k - 1, 0, nfft)
        IN  << s[1] \div TwScale, s[2] \div TwScale >> ]

\* ------------------------------------------------------------- windowcf
windowcf_create(n) == [ i \in 1..n |-> <<0, 0>> ]
windowcf_clear(b) == [ i \in 1..Len(b) |-> <<0, 0>> ]
windowcf_push(b, v) == SubSeq(Append(b, v), 2, Len(b) + 1)
windowcf_read(b) == b

\* ---------------------------------------------------------------- state
VARIABLES
    obj,      \* "none": not yet created; "error": the constructor hit exit(1); "live"
    call,     \* the constructor call that was made, and its arguments
    q,        \* struct spgram_s
    ret,      \* what the call that completed last handed back to its caller:
              \* the array _X as spgram_execute filled it, <<>> for the others
    pushed,   \* samples pushed since the last reset (or construction)
    stream,   \* those samples, oldest first
    log,      \* the transforms fired since the last reset, oldest first
    ref,      \* an object created afresh with q's configuration at the last
              \* reset, and pushed the same samples since
    total,    \* samples pushed over the life of the object
    resets    \* spgram_reset calls made by the user

vars == << obj, call, q, ret, pushed, stream, log, ref, total, resets >>

NoObject == [ nfft |-> 0, M |-> 0, delay |-> 0, alpha |-> 0,
              buffer |-> <<>>, x |-> <<>>, X |-> <<>>, w |-> <<>>, psd |-> <<>>,
              num_windows |-> 0, index |-> 0 ]

NoCall == [ fn |-> "none", nfft |-> 0, m |-> 0, delay |-> 0, alpha |-> 0 ]

\* ---------------------------------------------------------- spgram_reset
\* variant: the transform count survives the reset
spgram_reset_KeepCount(qq) ==
    [ qq EXCEPT !.buffer = windowcf_clear(qq.buffer),
                !.index = 0 ]

\* variant: the stride counter survives the reset
spgram_reset_KeepIndex(qq) ==
    [ qq EXCEPT !.buffer = windowcf_clear(qq.buffer),
                !.num_windows = 0 ]

spgram_reset(qq) ==
    [ qq EXCEPT !.buffer = windowcf_clear(qq.buffer),
                !.num_windows = 0,
                !.index = 0 ]

\* ------------------------------------------------- spgram_create_advanced
\* variant: the test of _delay is missing
ConfigError_NoDelayCheck(nfft, m, delay, alpha) ==
    IF nfft < 2 THEN TRUE
    ELSE IF m > nfft THEN TRUE
    ELSE IF alpha <= 0 \/ alpha > AlphaDen THEN TRUE
    ELSE FALSE

\* the validation of the arguments: TRUE when the constructor calls exit(1)
ConfigError(nfft, m, delay, alpha) ==
    IF nfft < 2 THEN TRUE
    ELSE IF m > nfft THEN TRUE
    ELSE IF delay = 0 THEN TRUE
    ELSE IF alpha <= 0 \/ alpha > AlphaDen THEN TRUE
    ELSE FALSE

\* variant: the transform input is not cleared
NewObject_InputNotCleared(nfft, m, delay, alpha, h) ==
    spgram_reset(
        [ nfft |-> nfft, alpha |-> alpha, M |-> m, delay |-> delay,
          buffer |-> windowcf_create(m),
          x |-> [ i \in 1..nfft |-> <<h, h>> ],
          X |-> [ i \in 1..nfft |-> <<h, h>> ],
          w |-> [ i \in 1..m |-> << hamming(i - 1, m) \div m, 0 >> ],
          psd |-> [ i \in 1..nfft |-> h ],
          num_windows |-> h,
          index |-> h ])

\* the object the constructor returns; h is what the malloc'ed arrays the
\* constructor does not write (X and psd) happen to hold
NewObject(nfft, m, delay, alpha, h) ==
    spgram_reset(
        [ nfft |-> nfft, alpha |-> alpha, M |-> m, delay |-> delay,
          buffer |-> windowcf_create(m),
          x |-> [ i \in 1..nfft |-> <<0, 0>> ],
          X |-> [ i \in 1..nfft |-> <<h, h>> ],
          w |-> [ i \in 1..m |-> << hamming(i - 1, m) \div m, 0 >> ],
          psd |-> [ i \in 1..nfft |-> h ],
          num_windows |-> h,
          index |-> h ])

Construct(nfft, m, delay, alpha, h) ==
    /\ IF ConfigError(nfft, m, delay, alpha)
       THEN /\ obj' = "error"
            /\ q' = NoObject
       ELSE /\ obj' = "live"
            /\ q' = NewObject(nfft, m, delay, alpha, h)
    /\ ref' = q'
    /\ ret' = <<>>
    /\ UNCHANGED << pushed, stream, log, total, resets >>

CreateAdvanced ==
    /\ obj = "none"
    /\ \E nfft \in 0..MaxNfft, m \in 0..MaxM, delay \in 0..MaxDelay,
          alpha \in AlphaInputs, h \in HeapFill :
        /\ call' = [ fn |-> "spgram_create_advanced", nfft |-> nfft, m |-> m,
                     delay |-> delay, alpha |-> alpha ]
        /\ Construct(nfft, m, delay, alpha, h)

\* ---------------------------------------------------------- spgram_create
\* variant: half the transform size instead of a quarter
DefaultM_Half(nfft) == nfft \div 2

DefaultM(nfft) == nfft \div 4
DefaultDelay(nfft) == nfft \div 8

Create ==
    /\ obj = "none"
    /\ \E nfft \in 0..MaxNfftSimple, alpha \in AlphaInputs, h \in HeapFill :
        /\ call' = [ fn |-> "spgram_create", nfft |-> nfft, m |-> 0,
                     delay |-> 0, alpha |-> alpha ]
        /\ Construct(nfft, DefaultM(nfft), DefaultDelay(nfft), alpha, h)

\* ------------------------------------------------------------ spgram_push
\* the test that decides whether a transform is taken, on the counter as
\* incremented for the sample just pushed
\* variant: the transform is taken one sample early
StrideReached_OffByOne(index, delay) == index + 1 >= delay

StrideReached(index, delay) == index = delay

\* read buffer, copy to FFT input (applying window)
WindowedInput(xx, rc, w, m) ==
    [ k \in 1..Len(xx) |-> IF k <= m THEN CMul(rc[k], w[k]) ELSE xx[k] ]

\* variant: the first window is averaged in like the others
Accumulate_AlwaysBlend(num_windows, psd, XX, alpha) ==
    [ j \in 1..Len(psd) |->
        ((AlphaDen - alpha) * psd[j] + alpha * Cabsf(XX[j])) \div AlphaDen ]

\* variant: the two weights of the average are exchanged
Accumulate_SwappedWeights(num_windows, psd, XX, alpha) ==
    IF num_windows = 0
    THEN [ j \in 1..Len(psd) |-> Cabsf(XX[j]) ]
    ELSE [ j \in 1..Len(psd) |->
             (alpha * psd[j] + (AlphaDen - alpha) * Cabsf(XX[j])) \div AlphaDen ]

\* accumulate output: the first window is copied, later ones are averaged in
Accumulate(num_windows, psd, XX, alpha) ==
    IF num_windows = 0
    THEN [ j \in 1..Len(psd) |-> Cabsf(XX[j]) ]
    ELSE [ j \in 1..Len(psd) |->
             ((AlphaDen - alpha) * psd[j] + alpha * Cabsf(XX[j])) \div AlphaDen ]

\* num_windows++ on an unsigned int
IncrNumWindows(num_windows) == (num_windows + 1) % Pow2(NumWindowsBits)

\* variant: the stride counter is not put back to 0
TakeTransform_NoIndexReset(qq) ==
    LET rc == windowcf_read(qq.buffer)
        x1 == WindowedInput(qq.x, rc, qq.w, qq.M)
        X1 == FftExecute(x1, qq.nfft)
    IN  [ qq EXCEPT !.x = x1,
                    !.X = X1,
                    !.psd = Accumulate(qq.num_windows, qq.psd, X1, qq.alpha),
                    !.num_windows = IncrNumWindows(qq.num_windows) ]

\* variant: the window is applied in place, overwriting the coefficients
TakeTransform_WindowInPlace(qq) ==
    LET rc == windowcf_read(qq.buffer)
        x1 == WindowedInput(qq.x, rc, qq.w, qq.M)
        X1 == FftExecute(x1, qq.nfft)
    IN  [ qq EXCEPT !.index = 0,
                    !.x = x1,
                    !.X = X1,
                    !.w = [ k \in 1..qq.M |-> x1[k] ],
                    !.psd = Accumulate(qq.num_windows, qq.psd, X1, qq.alpha),
                    !.num_windows = IncrNumWindows(qq.num_windows) ]

\* the body of `if (_q->index == _q->delay)`
TakeTransform(qq) ==
    LET rc == windowcf_read(qq.buffer)
        x1 == WindowedInput(qq.x, rc, qq.w, qq.M)
        X1 == FftExecute(x1, qq.nfft)
    IN  [ qq EXCEPT !.index = 0,
                    !.x = x1,
                    !.X = X1,
                    !.psd = Accumulate(qq.num_windows, qq.psd, X1, qq.alpha),
                    !.num_windows = IncrNumWindows(qq.num_windows) ]

\* variant: the transform is taken before the sample enters the buffer
PushSample_TransformFirst(qq, v) ==
    LET q1 == [ qq EXCEPT !.index = qq.index + 1 ]
        q2 == IF StrideReached(q1.index, q1.delay) THEN TakeTransform(q1) ELSE q1
    IN  [ q2 EXCEPT !.buffer = windowcf_push(q2.buffer, v) ]

\* one iteration of the loop over the input samples
PushSample(qq, v) ==
    LET q1 == [ qq EXCEPT !.buffer = windowcf_push(qq.buffer, v),
                          !.index = qq.index + 1 ]
    IN  IF StrideReached(q1.index, q1.delay) THEN TakeTransform(q1) ELSE q1

RECURSIVE spgram_push(_, _, _)
spgram_push(qq, xs, i) ==
    IF i > Len(xs) THEN qq ELSE spgram_push(PushSample(qq, xs[i]), xs, i + 1)

\* The same loop, keeping its history: the samples counted, and one entry
\* per transform taken, recognised by num_windows having been incremented.
\* LogPush(st, xs, 1).q is spgram_push(st.q, xs, 1).
LogSample(st, v) ==
    LET q0 == st.q
        q1 == PushSample(q0, v)
        n1 == st.pushed + 1
    IN  [ q |-> q1,
          pushed |-> n1,
          log |-> IF q1.num_windows = q0.num_windows THEN st.log
                  ELSE Append(st.log,
                         [ at |-> n1, nw |-> q0.num_windows,
                           snap |-> q1.buffer, xin |-> q1.x, X |-> q1.X,
                           after |-> q1.psd ]) ]

\* variant: the stride counter starts again at every call
RECURSIVE LogPush_CounterPerCall(_, _, _)
LogPush_CounterPerCall(st, xs, i) ==
    IF i > Len(xs) THEN st
    ELSE LogPush_CounterPerCall(
             LogSample(IF i = 1 THEN [ st EXCEPT !.q.index = 0 ] ELSE st, xs[i]),
             xs, i + 1)

RECURSIVE LogPush(_, _, _)
LogPush(st, xs, i) ==
    IF i > Len(xs) THEN st ELSE LogPush(LogSample(st, xs[i]), xs, i + 1)

SampleSeqs == UNION { [ 1..n -> SampleInputs ] : n \in 0..MaxPushLen }

\* what spgram_push requires of its arguments: an object and a length,
\* nothing else (no validation, no early return)
PushPre(n) == obj = "live" /\ n \in Nat

Push ==
    \E xs \in SampleSeqs :
        /\ PushPre(Len(xs))
        /\ total + Len(xs) <= MaxPushed
        /\ \E h \in { LogPush([ q |-> q, pushed |-> pushed, log |-> log ], xs, 1) } :
               /\ q' = h.q
               /\ pushed' = h.pushed
               /\ log' = h.log
        /\ stream' = stream \o xs
        /\ ref' = spgram_push(ref, xs, 1)
        /\ total' = total + Len(xs)
        /\ ret' = <<>>
        /\ UNCHANGED << obj, call, resets >>

\* --------------------------------------------------------- spgram_execute
\* variant: the half length is rounded up
ShiftIndex_CeilHalf(i, nfft) == (i + (nfft + 1) \div 2) % nfft

\* the PSD bin copied to output position i
ShiftIndex(i, nfft) == (i + nfft \div 2) % nfft

spgram_execute(qq) ==
    IF qq.num_windows = 0
    THEN [ i \in 1..qq.nfft |-> 0 ]
    ELSE [ i \in 1..qq.nfft |-> MagToDb(qq.psd[ShiftIndex(i - 1, qq.nfft) + 1]) ]

\* variant: execute refuses to run before the first transform
ExecutePre_NeedsTransform == obj = "live" /\ q.num_windows # 0

\* what spgram_execute requires: an object (it has no check on the count)
ExecutePre == obj = "live"

\* variant: reading the estimate starts a new average
Execute_RestartsAverage ==
    /\ ExecutePre
    /\ ret' = spgram_execute(q)
    /\ q' = [ q EXCEPT !.num_windows = 0 ]
    /\ UNCHANGED << obj, call, pushed, stream, log, ref, total, resets >>

Execute ==
    /\ ExecutePre
    /\ ret' = spgram_execute(q)
    /\ UNCHANGED << obj, call, q, pushed, stream, log, ref, total, resets >>

\* what spgram_reset requires: an object
ResetPre == obj = "live"

Reset ==
    /\ ResetPre
    /\ resets < MaxResets
    /\ q' = spgram_reset(q)
    /\ ref' = NewObject(q.nfft, q.M, q.delay, q.alpha, FreshFill)
    /\ pushed' = 0
    /\ stream' = <<>>
    /\ log' = <<>>
    /\ resets' = resets + 1
    /\ ret' = <<>>
    /\ UNCHANGED << obj, call, total >>

Init ==
    /\ obj = "none"
    /\ call = NoCall
    /\ q = NoObject
    /\ ret = <<>>
    /\ pushed = 0
    /\ stream = <<>>
    /\ log = <<>>
    /\ ref = NoObject
    /\ total = 0
    /\ resets = 0

Next == Create \/ CreateAdvanced \/ Push \/ Execute \/ Reset

Spec == Init /\ [][Next]_vars

TypeOK ==
    /\ obj \in {"none", "error", "live"}
    /\ q.num_windows \in 0..(Pow2(NumWindowsBits) - 1)
    /\ Len(q.x) = q.nfft /\ Len(q.psd) = q.nfft /\ Len(q.buffer) = q.M

\* ================================================================ claims
Live == obj = "live"
Zeros(n) == [ i \in 1..n |-> 0 ]
Magnitudes(XX) == [ j \in 1..Len(XX) |-> Cabsf(XX[j]) ]
Blended(psd, XX, alpha) ==
    [ j \in 1..Len(psd) |->
        ((AlphaDen - alpha) * psd[j] + alpha * Cabsf(XX[j])) \div AlphaDen ]

\* C1: spgram_create_advanced(N, M, D, alpha) ends in the configuration
\* error and produces no object whenever N < 2, or M > N, or D = 0, or
\* alpha <= 0, or alpha > 1; and once in that outcome no operation is ever
\* performed.
C1_InvalidIsRejected ==
    (/\ call.fn = "spgram_create_advanced"
     /\ \/ call.nfft < 2
        \/ call.m > call.nfft
        \/ call.delay = 0
        \/ call.alpha <= 0
        \/ call.alpha > AlphaDen)
    => obj = "error" /\ q = NoObject

C1_ConfigurationError == []C1_InvalidIsRejected /\ [][obj # "error"]_vars

C1_Witness ==
    /\ obj = "error"
    /\ call.fn = "spgram_create_advanced"
    /\ call.nfft >= 2 /\ call.m <= call.nfft /\ call.delay = 0
    /\ call.alpha > 0 /\ call.alpha <= AlphaDen

\* C2: every successfully constructed estimator has N >= 2, 1 <= M <= N,
\* D >= 1 and 0 < alpha <= 1, in every state reachable afterwards.
C2_ConfigurationInRange ==
    Live => /\ q.nfft >= 2
            /\ 1 <= q.M /\ q.M <= q.nfft
            /\ q.delay >= 1
            /\ 0 < q.alpha /\ q.alpha <= AlphaDen

\* C3: spgram_create(N, alpha) has the outcome of
\* spgram_create_advanced(N, N/4, N/8, alpha), the divisions rounding down:
\* the same error, or the same initial state.
C3_CreateIsAdvancedWithDefaults ==
    call.fn = "spgram_create" /\ total = 0 /\ resets = 0 =>
        LET m == call.nfft \div 4
            d == call.nfft \div 8
        IN  IF ConfigError(call.nfft, m, d, call.alpha)
            THEN obj = "error" /\ q = NoObject
            ELSE /\ obj = "live"
                 /\ \E h \in HeapFill : q = NewObject(call.nfft, m, d, call.alpha, h)

C3_Witness ==
    /\ call.fn = "spgram_create" /\ Live /\ total = 0 /\ resets = 0
    /\ q.nfft = 8 /\ q.M = 2 /\ q.delay = 1

\* C4: after construction or reset, as long as fewer than D samples have
\* been pushed, over any number of push calls, the transform count is 0 and
\* execute writes 0 to all N output positions.
C4_NothingBeforeFirstStride ==
    Live /\ pushed < q.delay =>
        /\ q.num_windows = 0
        /\ log = <<>>
        /\ spgram_execute(q) = Zeros(q.nfft)
        /\ (ret # <<>> => ret = Zeros(q.nfft))

C4_Witness ==
    /\ Live /\ resets >= 1 /\ total - pushed >= q.delay
    /\ pushed >= 1 /\ pushed < q.delay
    /\ ret = Zeros(q.nfft)

\* C5: once n samples have been pushed since the last reset (or
\* construction), in push calls of any lengths, exactly n div D transforms
\* have fired, the j-th of them when the (j*D)-th sample was pushed.
C5_OneTransformPerStride ==
    Live =>
        /\ Len(log) = pushed \div q.delay
        /\ \A j \in 1..Len(log) : log[j].at = j * q.delay

C5_Witness ==
    /\ Live /\ q.delay = 2 /\ pushed = 3 /\ Len(log) = 1 /\ q.index = 1

\* C6: pushing exactly D samples after a reset (or construction) triggers
\* exactly one transform, after which PSD[k] is the magnitude |X[k]| of
\* that transform for every bin k, nothing of the earlier PSD blended in.
C6_FirstTransformIsCopied ==
    Live /\ pushed = q.delay =>
        /\ Len(log) = 1
        /\ q.psd = Magnitudes(q.X)
        /\ log[1].after = Magnitudes(log[1].X)

C6_Witness ==
    /\ Live /\ pushed = q.delay /\ Len(log) = 1
    /\ resets >= 1 /\ total - pushed >= q.delay /\ q.alpha < AlphaDen
    /\ \E k \in 1..q.nfft : q.psd[k] # 0

\* C7: every transform after the first since the last reset updates every
\* bin by PSD[j] = (1-alpha)*PSD[j] + alpha*|X[j]|, never by assignment, and
\* k further strides trigger exactly k further transforms, for every k >= 1.
C7_LaterTransformsBlend ==
    Live =>
        /\ Len(log) = pushed \div q.delay
        /\ \A j \in 2..Len(log) :
              log[j].after = Blended(log[j - 1].after, log[j].X, q.alpha)

\* C8: with alpha = 1, after every transform that follows the first one
\* since the reset, PSD[k] is the magnitude of the most recent transform for
\* every bin k.
C8_AlphaOneTracksLatest ==
    Live /\ q.alpha = AlphaDen /\ Len(log) >= 2 =>
        /\ q.psd = Magnitudes(q.X)
        /\ \A j \in 2..Len(log) : log[j].after = Magnitudes(log[j].X)

C8_Witness ==
    /\ Live /\ q.alpha = AlphaDen /\ Len(log) >= 2
    /\ log[Len(log) - 1].after # log[Len(log)].after

C10_ResetIsLikeNew ==
    Live /\ resets >= 1 =>
        /\ pushed = 0 =>
              /\ q.num_windows = 0
              /\ q.index = 0
              /\ q.buffer = [ i \in 1..q.M |-> <<0, 0>> ]
        /\ q.num_windows = ref.num_windows
        /\ q.index = ref.index
        /\ q.buffer = ref.buffer
        /\ (log # <<>> => q.psd = ref.psd)
        /\ spgram_execute(q) = spgram_execute(ref)
        /\ (ret # <<>> => ret = spgram_execute(ref))

C10_Witness ==
    /\ Live /\ resets >= 1 /\ log # <<>> /\ ret # <<>> /\ q.num_windows # 0
    /\ total - pushed >= q.delay
    /\ \E k \in 1..q.nfft : ret[k] # 0

\* C11: once an estimator is constructed, the precondition of push (for
\* every length, 0 included), of execute and of reset holds in every
\* reachable state, whatever the transform count, and no step takes a live
\* object to an error state.  The effect of each operation is a total
\* function of the state, so it is enabled exactly when its precondition
\* (and, in the model, its budget MaxPushed or MaxResets) holds.
C11_Preconditions ==
    Live =>
        /\ ExecutePre
        /\ ResetPre
        /\ \A n \in 0..MaxPushLen : PushPre(n)

C11_OperationsAreTotal == []C11_Preconditions /\ [][Live => obj' = "live"]_vars

C11_Witness ==
    /\ Live /\ resets >= 1 /\ Len(log) >= 2 /\ q.num_windows = 0 /\ ret # <<>>

\* C12 as stated: each transform analyses the M most recently pushed
\* samples, in chronological order.
C12_WindowIsPushedSamples ==
    Live =>
        \A j \in 1..Len(log) : \A k \in 1..q.M :
            /\ log[j].at - q.M + k >= 1
            /\ log[j].snap[k] = stream[log[j].at - q.M + k]

\* the cleared buffer followed by the samples pushed since
Padded == [ i \in 1..q.M |-> <<0, 0>> ] \o stream
\* the stream positions transform j analyses (positions <= 0 are the zeros)
WindowOf(j) == (log[j].at - q.M + 1)..log[j].at

\* C12 (amended): each transform analyses the buffer as it is after the
\* triggering sample was pushed: the last M entries of M zeros followed by
\* the samples pushed since the last reset, in order, with
\* transform-input[k] = snapshot[k]*w[k] for k < M.  The windows of two
\* consecutive transforms share M-D positions when D < M, none when D >= M,
\* are contiguous when D = M, and skip D-M samples when D > M.
C12_WindowIsPaddedStream ==
    Live =>
        /\ \A j \in 1..Len(log) :
              /\ log[j].snap = SubSeq(Padded, log[j].at + 1, log[j].at + q.M)
              /\ \A k \in 1..q.M : log[j].xin[k] = CMul(log[j].snap[k], q.w[k])
        /\ \A j \in 1..(Len(log) - 1) :
              /\ Cardinality(WindowOf(j) \cap WindowOf(j + 1))
                    = IF q.delay < q.M THEN q.M - q.delay ELSE 0
              /\ q.delay < q.M =>
                    SubSeq(log[j].snap, q.delay + 1, q.M)
                        = SubSeq(log[j + 1].snap, 1, q.M - q.delay)
              /\ q.delay = q.M => log[j + 1].at - q.M = log[j].at
              /\ q.delay > q.M =>
                    Cardinality(((log[j].at + 1)..log[j + 1].at) \ WindowOf(j + 1))
                        = q.delay - q.M

C12_Witness ==
    /\ Live /\ Len(log) >= 2 /\ q.M = 3 /\ q.delay = 1
    /\ log[1].snap[1] = <<0, 0>> /\ log[2].snap[3] # log[2].snap[2]

\* C13: positions M..N-1 of the transform input are zero in every reachable
\* state, and in the input of every transform taken: push writes positions
\* 0..M-1 only.
C13_PaddingStaysZero ==
    Live =>
        /\ \A k \in (q.M + 1)..q.nfft : q.x[k] = <<0, 0>>
        /\ \A j \in 1..Len(log) :
              \A k \in (q.M + 1)..q.nfft : log[j].xin[k] = <<0, 0>>

C13_Witness ==
    /\ Live /\ q.M < q.nfft /\ Len(log) >= 1
    /\ \E k \in 1..q.M : q.x[k] # <<0, 0>>

\* C14: at every operation boundary the stride counter lies in 0..D-1 and
\* is the number of samples pushed since the last reset (or construction)
\* modulo D.
C14_StrideCounter ==
    Live =>
        /\ 0 <= q.index /\ q.index < q.delay
        /\ q.index = pushed % q.delay

C14_Witness ==
    /\ Live /\ resets >= 1 /\ q.delay = 2 /\ pushed = 3 /\ q.index = 1

\* C15: once at least one transform has fired since the last reset, the
\* transform count is non-zero in every later state until the next reset,
\* and it never decreases from one transform to the next.
C15_CountStaysNonZero ==
    Live /\ Len(log) >= 1 =>
        /\ q.num_windows # 0
        /\ \A j \in 2..Len(log) : log[j].nw > log[j - 1].nw

\* C16: the configuration (N, M, D, alpha) and the window coefficients of a
\* live estimator are changed by no step: not by reset, push or execute.
C16_ConfigurationIsFixed ==
    [][ Live /\ obj' = "live" =>
            /\ q'.nfft = q.nfft /\ q'.M = q.M /\ q'.delay = q.delay
            /\ q'.alpha = q.alpha
            /\ q'.w = q.w /\ Len(q'.w) = q.M ]_vars

C16_Witness ==
    /\ Live /\ resets >= 1 /\ total > pushed /\ Len(log) >= 1 /\ ret # <<>>
    /\ q.M >= 2 /\ q.w[1] # <<0, 0>>

\* C17: a step that produces an output (an execute) leaves the estimator as
\* it was, buffer, stride counter, transform count, transform input and PSD
\* included; its output is a function of that state; and it repeats the
\* output of an execute that immediately precedes it.
C17_ExecuteIsAQuery ==
    [][ ret' # <<>> =>
            /\ q' = q
            /\ ref' = ref
            /\ ret' = spgram_execute(q)
            /\ (ret # <<>> => ret' = ret) ]_vars

C17_Witness ==
    /\ Live /\ ret # <<>> /\ ret # Zeros(q.nfft) /\ Len(log) >= 1
    /\ pushed > q.delay

\* the state reached by pushing all samples since the last reset in one
\* call, on an estimator as constructed
OneCall ==
    spgram_push(NewObject(q.nfft, q.M, q.delay, q.alpha, FreshFill), stream, 1)

\* C18: however the samples pushed since the last reset (or construction)
\* were divided into push calls, the buffer, stride counter and transform
\* count are those of a single call with all of them, and so are the
\* transform input, the transform and the PSD once a transform has been
\* taken; a push of length 0 changes nothing.
C18_ChunkingIsInvisible ==
    Live =>
        /\ \E one \in { OneCall } :
              /\ q.buffer = one.buffer
              /\ q.index = one.index
              /\ q.num_windows = one.num_windows
              /\ Len(log) >= 1 => q.x = one.x /\ q.X = one.X /\ q.psd = one.psd
        /\ spgram_push(q, <<>>, 1) = q

C18_Witness ==
    /\ Live /\ resets = 0 /\ total = 3 /\ q.delay = 2 /\ ret = <<>>
    /\ Len(log) = 1 /\ q.M >= 2

====
